---- MODULE Spec2Model ----
(***************************************************************************)
(* A model of the audio/video pipeline of the rustretro front end.         *)
(*                                                                         *)
(* Two revisions of the pipeline live side by side in the sources:         *)
(*   - the modular one (audio.rs, video.rs, libretro.rs, input.rs), whose  *)
(*     sinks push onto process-wide channels: specifications Spec,         *)
(*     SpecAudio, SpecVideo, SpecPool and LiveSpec;                        *)
(*   - the monolithic one (main.rs), whose sinks overwrite fields of       *)
(*     CURRENT_EMULATOR_STATE and whose main loop forwards them:           *)
(*     specification SpecMain.                                             *)
(***************************************************************************)
EXTENDS Integers, Sequences, FiniteSets, TLC

(***************************************************************************)
(* Bounds of the model.                                                    *)
(***************************************************************************)
\* audio.rs:19 sets POOL_SIZE to 20; the model keeps the pool small so that
\* an exhausted free list is within reach of NumCallers overlapping calls.
POOL_SIZE == 1
\* audio.rs:18 computes BUFFER_LENGTH = 48000 * 64 / 1000 = 3072 samples; the
\* model keeps the standard chunk short so that chunks both shorter and
\* longer than it are produced.
BUFFER_LENGTH == 3
\* callers of the audio batch callback in the re-entrant harness SpecPool
NumCallers == 2
\* largest frame count the core hands to the audio batch callback
MaxFrames == 2
\* cap on the number of items waiting on a channel
MaxQueue == 2

\* audio.rs:15
AUDIO_CHANNELS == 2

None == [none |-> TRUE]

SimThread == 1
Callers == 1..NumCallers

Min(S) == CHOOSE x \in S : \A y \in S : x <= y

(***************************************************************************)
(* AudioBuffer (audio.rs:22-51): the data vector and its operations.       *)
(***************************************************************************)
Zeroed(size) == [i \in 1..size |-> 0]

AudioBuffer_new(size) == Zeroed(size)

AudioBuffer_clear(data) == << >>

AudioBuffer_extend_from_slice(data, slice) == data \o slice

\* std::slice::from_raw_parts(ptr, len): the first len elements at ptr
from_raw_parts(mem, len) == SubSeq(mem, 1, len)

\* What the core hands to the audio batch callback: frames, and a pointer to
\* frames * AUDIO_CHANNELS interleaved samples.  Each sample of a chunk is
\* distinct, so that order and length inside a chunk are observable.
AudioInput(f, t) ==
    [frames |-> f, audio_data |-> [i \in 1..(f * AUDIO_CHANNELS) |-> 10 * t + i]]

AudioInputs == { AudioInput(f, 1) : f \in 0..MaxFrames }

\* the one chunk the callers of the re-entrant harness hand over
PoolInputs == { AudioInput(1, 1) }

VARIABLES
    BUFFER_POOL,         \* the free list: a sequence of buffers [id, data]
    AUDIO_DATA_CHANNEL,  \* the buffers in flight on the audio channel
    audio_rx_alive,      \* FALSE once the receiving side of the channel is gone
    a_pc,                \* per caller: position in the audio batch callback
    a_args,              \* per caller: the arguments of the call in progress
    buffer_arc,          \* per caller: the buffer acquired from the pool
    a_sent,              \* per caller: the buffer handed to send (or None)
    a_err,               \* per caller: whether the send of this call failed
    a_ret,               \* per caller: << >>, or <<v>> once the call returned v
    a_acq,               \* per caller: identity of the buffer last acquired
    empty_acquires,      \* acquires that found the free list empty
    player,              \* the buffer the audio thread is draining (or None)
    crash,               \* "none", or why the simulation thread has died
    VIDEO_DATA_CHANNEL,  \* the VideoData values waiting on the video channel
    video_rx_alive,      \* FALSE once the receiving side of the channel is gone
    BYTES_PER_PIXEL,     \* the shared bytes-per-pixel value
    v_pc,                \* position of the simulation thread in video refresh
    v_args,              \* the arguments of the video refresh call in progress
    v_err,               \* whether the send of the last video refresh failed
    window_size,         \* <<width, height>> of the window
    surface,             \* the buffer last given to the window (<< >>: none yet)
    updates,             \* surface updates made by the last presenter pass
    after_null,          \* history: "null" once a null refresh has returned,
                         \* "shown" once a presenter pass has followed it,
                         \* "no" after a refresh with a frame
    m_pc,                \* main.rs: position of the main loop
    m_audio_data,        \* main.rs: CURRENT_EMULATOR_STATE.audio_data
    m_channel,           \* main.rs: the references waiting on the audio channel
    m_recv,              \* main.rs: the reference the audio thread received
    m_header,            \* main.rs: the vector play_audio took its slice from
    handed,              \* history: the chunks the core handed over, in order
    submitted,           \* history: the chunks submitted to the output device
    v_len,               \* history: bytes the last video refresh call read
    sink_bpp,            \* history: per frame waiting on the video channel,
                         \* the bytes-per-pixel value the sink used for it
    v_taken,             \* history: frames the last presenter pass took from
                         \* the channel (-1: no pass yet)
    PIXEL_FORMAT_CHANNEL, \* the pixel formats waiting on the format channel
    cs_pixel_format,     \* current_state.pixel_format
    cs_bytes_per_pixel,  \* current_state.bytes_per_pixel
    env_ret,             \* << >>, or <<v>>: what the last environment call returned
    env_data,            \* << >>, or <<v>>: what it wrote to the data slot
    announced,           \* history: the last format the core announced ("none")
    negotiated,          \* TRUE once the driver has consumed the announcement
    px_input,            \* the byte buffer given to the pixel converter
    px_output,           \* None, or what the converter made of px_input
    geo_in,              \* None, or a frame size, surface size and bpp
    geo_out,             \* None, or the geometry computed for geo_in
    blit_in,             \* None, or a VideoData, surface size and bpp
    blit_out,            \* None, or what the blit made of blit_in
    current_save_slot,   \* current_state.current_save_slot (u8)
    buttons_pressed,     \* the entry of buttons_pressed of the mapped key
    kb_keys,             \* history: the keys of the last keyboard poll
    kb_before            \* history: the save slot before the last poll

audio_vars == << BUFFER_POOL, AUDIO_DATA_CHANNEL, audio_rx_alive, a_pc, a_args,
                 buffer_arc, a_sent, a_err, a_ret, a_acq, empty_acquires,
                 player >>

video_vars == << VIDEO_DATA_CHANNEL, video_rx_alive, BYTES_PER_PIXEL, v_pc,
                 v_args, v_err, window_size, surface, updates, after_null,
                 v_len, sink_bpp, v_taken >>

\* the monolithic revision (main.rs)
main_vars == << m_pc, m_audio_data, m_channel, m_recv, m_header, handed,
                submitted >>

\* pixel-format negotiation (libretro.rs, video.rs)
fmt_vars == << PIXEL_FORMAT_CHANNEL, cs_pixel_format, cs_bytes_per_pixel,
               env_ret, env_data, announced, negotiated >>

\* inputs and results of the pure functions
pure_vars == << px_input, px_output, geo_in, geo_out, blit_in, blit_out >>

\* keyboard input (input.rs)
input_vars == << current_save_slot, buttons_pressed, kb_keys, kb_before >>

vars == << audio_vars, crash, video_vars, main_vars, fmt_vars, pure_vars,
          input_vars >>

Held(f) == { f[c] : c \in { d \in DOMAIN f : f[d] # None } }

\* identities of the buffers that are alive
LiveIds ==
    { BUFFER_POOL[i].id : i \in DOMAIN BUFFER_POOL }
      \cup { AUDIO_DATA_CHANNEL[i].id : i \in DOMAIN AUDIO_DATA_CHANNEL }
      \cup { b.id : b \in Held(buffer_arc) }
      \cup (IF player = None THEN {} ELSE {player.id})

\* a fresh allocation: an identity no live buffer has
NewId(live) == Min({ n \in 1..(Cardinality(live) + 1) : n \notin live })

(***************************************************************************)
(* BUFFER_POOL (audio.rs:54-60) and its two operations as the audio batch  *)
(* callback performs them under the pool's lock.                           *)
(***************************************************************************)
InitialPool == [i \in 1..POOL_SIZE |-> [id |-> i, data |-> Zeroed(BUFFER_LENGTH)]]

\* Acquire as it would be with pool.last().cloned() in place of pool.pop():
\* the buffer is handed out and stays on the free list
Acquire_NoPop(pool, live) ==
    IF Len(pool) > 0
    THEN [buf |-> pool[Len(pool)], pool |-> pool, fresh |-> FALSE]
    ELSE [buf |-> [id |-> NewId(live), data |-> Zeroed(BUFFER_LENGTH)],
          pool |-> pool, fresh |-> TRUE]

\* Acquire as it would be with Vec::new() for the fallback buffer
Acquire_Unzeroed(pool, live) ==
    IF Len(pool) > 0
    THEN [buf |-> pool[Len(pool)], pool |-> SubSeq(pool, 1, Len(pool) - 1),
          fresh |-> FALSE]
    ELSE [buf |-> [id |-> NewId(live), data |-> << >>],
          pool |-> pool, fresh |-> TRUE]

\* audio.rs:81-82: pool.pop().unwrap_or_else(|| Arc::new(Mutex::new(vec![0; BUFFER_LENGTH])))
\* Vec::pop takes the last element; it never waits.
Acquire(pool, live) ==
    IF Len(pool) > 0
    THEN [buf |-> pool[Len(pool)], pool |-> SubSeq(pool, 1, Len(pool) - 1),
          fresh |-> FALSE]
    ELSE [buf |-> [id |-> NewId(live), data |-> Zeroed(BUFFER_LENGTH)],
          pool |-> pool, fresh |-> TRUE]

\* Release as it would be if the buffer were pushed back twice
Release_Twice(pool, buf) == Append(Append(pool, buf), buf)

\* audio.rs:98-99: pool.push(buffer_arc)
Release(pool, buf) == Append(pool, buf)

\* FillBuffer as it would be without the call of clear()
FillBuffer_NoClear(args) ==
    AudioBuffer_extend_from_slice(
        AudioBuffer_new(BUFFER_LENGTH),
        from_raw_parts(args.audio_data, args.frames * AUDIO_CHANNELS))

\* audio.rs:86-89: a new AudioBuffer is created, cleared and filled with the
\* frames * AUDIO_CHANNELS samples at audio_data
FillBuffer(args) ==
    AudioBuffer_extend_from_slice(
        AudioBuffer_clear(AudioBuffer_new(BUFFER_LENGTH)),
        from_raw_parts(args.audio_data, args.frames * AUDIO_CHANNELS))

\* a failed send handled with unwrap() instead of eprintln!
OnAudioSendError_Unwrap == "panic"

\* audio.rs:91-93: what the callback does with a failed send
\* ("logged": eprintln! and carry on)
OnAudioSendError == "logged"

\* the core calls libretro_set_audio_sample_batch_callback(audio_data, frames)
AudioBatch_Call(c, args) ==
    /\ crash = "none"
    /\ a_pc[c] = "idle"
    /\ c = SimThread => v_pc = "idle"
    /\ Len(AUDIO_DATA_CHANNEL) < MaxQueue
    /\ a_pc' = [a_pc EXCEPT ![c] = "called"]
    /\ a_args' = [a_args EXCEPT ![c] = args]
    /\ UNCHANGED << BUFFER_POOL, AUDIO_DATA_CHANNEL, audio_rx_alive, buffer_arc,
                    a_sent, a_err, a_ret, a_acq, empty_acquires, player, crash >>
    /\ UNCHANGED << video_vars, main_vars, fmt_vars, pure_vars, input_vars >>

\* audio.rs:79-83
AudioBatch_Acquire(c) ==
    /\ crash = "none"
    /\ a_pc[c] = "called"
    /\ LET r == Acquire(BUFFER_POOL, LiveIds)
       IN /\ BUFFER_POOL' = r.pool
          /\ buffer_arc' = [buffer_arc EXCEPT ![c] = r.buf]
          /\ a_acq' = [a_acq EXCEPT ![c] = r.buf.id]
          /\ empty_acquires' = empty_acquires + (IF r.fresh THEN 1 ELSE 0)
    /\ a_pc' = [a_pc EXCEPT ![c] = "acquired"]
    /\ UNCHANGED << AUDIO_DATA_CHANNEL, audio_rx_alive, a_args, a_sent, a_err,
                    a_ret, player, crash >>
    /\ UNCHANGED << video_vars, main_vars, fmt_vars, pure_vars, input_vars >>

\* audio.rs:85-94: the inner buffer_arc shadows the pooled one; its clone goes
\* on the channel and the local handle is dropped at the end of the block
AudioBatch_Send(c) ==
    /\ a_pc[c] = "acquired"
    /\ crash = "none"
    /\ LET inner == [id |-> NewId(LiveIds), data |-> FillBuffer(a_args[c])]
       IN /\ a_sent' = [a_sent EXCEPT ![c] = inner]
          /\ IF audio_rx_alive
             THEN /\ AUDIO_DATA_CHANNEL' = Append(AUDIO_DATA_CHANNEL, inner)
                  /\ UNCHANGED << a_err, crash >>
             ELSE /\ a_err' = [a_err EXCEPT ![c] = TRUE]
                  /\ crash' = IF OnAudioSendError = "logged" THEN crash
                                                            ELSE "send"
                  /\ UNCHANGED AUDIO_DATA_CHANNEL
    /\ a_pc' = [a_pc EXCEPT ![c] = "sent"]
    /\ UNCHANGED << BUFFER_POOL, audio_rx_alive, a_args, buffer_arc, a_ret,
                    a_acq, empty_acquires, player >>
    /\ UNCHANGED << video_vars, main_vars, fmt_vars, pure_vars, input_vars >>

\* audio.rs:96-102
AudioBatch_Release(c) ==
    /\ crash = "none"
    /\ a_pc[c] = "sent"
    /\ BUFFER_POOL' = Release(BUFFER_POOL, buffer_arc[c])
    /\ buffer_arc' = [buffer_arc EXCEPT ![c] = None]
    /\ a_sent' = [a_sent EXCEPT ![c] = None]
    /\ a_ret' = [a_ret EXCEPT ![c] = << a_args[c].frames >>]
    /\ a_pc' = [a_pc EXCEPT ![c] = "returned"]
    /\ UNCHANGED << AUDIO_DATA_CHANNEL, audio_rx_alive, a_args, a_err,
                    a_acq, empty_acquires, player, crash >>
    /\ UNCHANGED << video_vars, main_vars, fmt_vars, pure_vars, input_vars >>

\* the core takes the returned value and carries on
AudioBatch_Return(c) ==
    /\ crash = "none"
    /\ a_pc[c] = "returned"
    /\ a_pc' = [a_pc EXCEPT ![c] = "idle"]
    /\ a_args' = [a_args EXCEPT ![c] = None]
    /\ a_err' = [a_err EXCEPT ![c] = FALSE]
    /\ a_ret' = [a_ret EXCEPT ![c] = << >>]
    /\ a_acq' = [a_acq EXCEPT ![c] = 0]
    /\ UNCHANGED << BUFFER_POOL, AUDIO_DATA_CHANNEL, audio_rx_alive, buffer_arc,
                    a_sent, empty_acquires, player, crash >>
    /\ UNCHANGED << video_vars, main_vars, fmt_vars, pure_vars, input_vars >>

(***************************************************************************)
(* The audio thread (AudioPlayer): it takes the next buffer off the        *)
(* channel, submits it to the output device and lets go of it.             *)
(***************************************************************************)
AudioPlayer_Recv ==
    /\ audio_rx_alive
    /\ player = None
    /\ Len(AUDIO_DATA_CHANNEL) > 0
    /\ player' = Head(AUDIO_DATA_CHANNEL)
    /\ AUDIO_DATA_CHANNEL' = Tail(AUDIO_DATA_CHANNEL)
    /\ UNCHANGED << BUFFER_POOL, audio_rx_alive, a_pc, a_args, buffer_arc,
                    a_sent, a_err, a_ret, a_acq, empty_acquires, crash >>
    /\ UNCHANGED << video_vars, main_vars, fmt_vars, pure_vars, input_vars >>

AudioPlayer_Played ==
    /\ audio_rx_alive
    /\ player # None
    /\ player' = None
    /\ UNCHANGED << BUFFER_POOL, AUDIO_DATA_CHANNEL, audio_rx_alive, a_pc,
                    a_args, buffer_arc, a_sent, a_err, a_ret, a_acq,
                    empty_acquires, crash >>
    /\ UNCHANGED << video_vars, main_vars, fmt_vars, pure_vars, input_vars >>

\* the audio thread terminates: the receiver and what it still held are dropped
AudioPlayer_Gone ==
    /\ audio_rx_alive
    /\ audio_rx_alive' = FALSE
    /\ AUDIO_DATA_CHANNEL' = << >>
    /\ player' = None
    /\ UNCHANGED << BUFFER_POOL, a_pc, a_args, buffer_arc, a_sent, a_err,
                    a_ret, a_acq, empty_acquires, crash >>
    /\ UNCHANGED << video_vars, main_vars, fmt_vars, pure_vars, input_vars >>

(***************************************************************************)
(* Machine arithmetic                                                      *)
(***************************************************************************)
RECURSIVE BitAnd(_, _)
BitAnd(a, b) ==
    IF a = 0 \/ b = 0 THEN 0
    ELSE (a % 2) * (b % 2) + 2 * BitAnd(a \div 2, b \div 2)

RECURSIVE BitOr(_, _)
BitOr(a, b) ==
    IF a = 0 THEN b
    ELSE IF b = 0 THEN a
    ELSE (IF a % 2 = 1 \/ b % 2 = 1 THEN 1 ELSE 0) + 2 * BitOr(a \div 2, b \div 2)

\* a << n in u8
Shl8(a, n) == (a * 2^n) % 256

\* (a as u32) << n for a byte a and n <= 16: no bit leaves the 32
Shl32(a, n) == a * 2^n

Shr(a, n) == a \div 2^n

(***************************************************************************)
(* PixelConverter (video.rs:66-99)                                         *)
(***************************************************************************)
\* the pixel as it would be with red and blue packed the other way round
ConvertPixel_BGR(first_byte, second_byte) ==
    LET red5 == Shr(BitAnd(first_byte, 248), 3)
        green6 == (Shl8(BitAnd(first_byte, 7), 3)
                     + Shr(BitAnd(second_byte, 224), 5)) % 256
        blue5 == BitAnd(second_byte, 31)
        red == BitOr(Shl8(red5, 3), Shr(red5, 2))
        green == BitOr(Shl8(green6, 2), Shr(green6, 3))
        blue == BitOr(Shl8(blue5, 3), Shr(blue5, 2))
    IN BitOr(BitOr(Shl32(blue, 16), Shl32(green, 8)), red)

\* video.rs:79-95: one pixel from its two bytes, in u8 arithmetic, widened
\* to u32 only for the packing
ConvertPixel(first_byte, second_byte) ==
    LET red5 == Shr(BitAnd(first_byte, 248), 3)
        green6 == (Shl8(BitAnd(first_byte, 7), 3)
                     + Shr(BitAnd(second_byte, 224), 5)) % 256
        blue5 == BitAnd(second_byte, 31)
        red == BitOr(Shl8(red5, 3), Shr(red5, 2))
        green == BitOr(Shl8(green6, 2), Shr(green6, 3))
        blue == BitOr(Shl8(blue5, 3), Shr(blue5, 2))
    IN BitOr(BitOr(Shl32(red, 16), Shl32(green, 8)), blue)

\* the converter as it would be without its assertion: a last odd byte is
\* left out
convert_pixel_array_truncating(color_array) ==
    [panic |-> FALSE,
     result |-> [i \in 1..(Len(color_array) \div 2) |->
                   ConvertPixel(color_array[2 * (i - 1) + 1],
                                color_array[2 * (i - 1) + 2])]]

\* video.rs:66-99: panic when the assertion on the length fails
convert_pixel_array_from_rgb565_to_xrgb8888(color_array) ==
    IF Len(color_array) % 2 # 0 THEN [panic |-> TRUE, result |-> << >>]
    ELSE [panic |-> FALSE,
          result |-> [i \in 1..(Len(color_array) \div 2) |->
                        ConvertPixel(color_array[2 * (i - 1) + 1],
                                     color_array[2 * (i - 1) + 2])]]

(***************************************************************************)
(* Video Refresh Sink (video.rs:17-47)                                     *)
(***************************************************************************)
\* What the core hands to the video refresh callback.  mem is the frame
\* buffer the core owns: pitch * height bytes.
VideoFrames ==
    { [null |-> FALSE, width |-> 1, height |-> 1, pitch |-> 2, mem |-> << 248, 0 >>],
      [null |-> FALSE, width |-> 1, height |-> 1, pitch |-> 2, mem |-> << 0, 31 >>],
      [null |-> FALSE, width |-> 2, height |-> 1, pitch |-> 4,
       mem |-> << 248, 0, 7, 224 >>],
      [null |-> FALSE, width |-> 1, height |-> 1, pitch |-> 4,
       mem |-> << 0, 0, 255, 0 >>] }

NullFrame == [null |-> TRUE, width |-> 1, height |-> 1, pitch |-> 2, mem |-> << >>]

\* What lies behind the core's frame buffer when the callback reads past its
\* end: unmapped memory ("fault") or bytes of some other object.
Beyond == { [fault |-> TRUE, byte |-> 0], [fault |-> FALSE, byte |-> 0],
            [fault |-> FALSE, byte |-> 255] }

NullInput == [frame |-> NullFrame, beyond |-> [fault |-> FALSE, byte |-> 0]]

VideoInputs == { [frame |-> f, beyond |-> b] : f \in VideoFrames, b \in Beyond }
                  \cup { NullInput }

\* the inputs of the specification that runs both sinks
LeanAudioInputs == { AudioInput(1, 1) }

LeanVideoInputs ==
    { NullInput }
      \cup { [frame |-> f, beyond |-> b] :
               f \in { g \in VideoFrames : g.mem = << 248, 0 >> },
               b \in { c \in Beyond : c.byte = 0 } }

\* video.rs:28: ((pitch as u32) * height) * bpp (the frames of the model
\* stay far below the 2^32 at which u32 wraps)
length_of_frame_buffer(pitch, height, bpp) == (pitch * height) * bpp

\* video.rs:30-33: the len bytes at the frame pointer; those past the end of
\* the core's buffer are whatever lies there
ReadFrame(a, len) ==
    [i \in 1..len |-> IF i <= Len(a.frame.mem) THEN a.frame.mem[i]
                                                ELSE a.beyond.byte]

ReadFaults(a, len) == len > Len(a.frame.mem) /\ a.beyond.fault

\* video.rs:43-46: what the callback does with a failed send
OnVideoSendError == "logged"

\* the core calls libretro_set_video_refresh_callback(data, width, height, pitch)
VideoRefresh_Call(args) ==
    /\ crash = "none"
    /\ v_pc = "idle"
    /\ a_pc[SimThread] = "idle"
    /\ Len(VIDEO_DATA_CHANNEL) < MaxQueue
    /\ v_pc' = "called"
    /\ v_args' = args
    /\ v_err' = FALSE
    /\ UNCHANGED << VIDEO_DATA_CHANNEL, video_rx_alive, BYTES_PER_PIXEL,
                    window_size, surface, updates, after_null, v_len,
                    sink_bpp, crash >>
    /\ UNCHANGED v_taken
    /\ UNCHANGED << audio_vars, main_vars, fmt_vars, pure_vars, input_vars >>

\* the callback as it would be if a null pointer were sent on as an empty frame
VideoRefresh_Sends_Blank(args, bpp) ==
    IF args.frame.null
    THEN << [frame_buffer |-> << >>, width |-> args.frame.width,
             height |-> args.frame.height, pitch |-> args.frame.pitch] >>
    ELSE << [frame_buffer |->
               convert_pixel_array_from_rgb565_to_xrgb8888(
                   ReadFrame(args, length_of_frame_buffer(
                       args.frame.pitch, args.frame.height, bpp))).result,
             width |-> args.frame.width, height |-> args.frame.height,
             pitch |-> args.frame.pitch] >>

\* video.rs:23-41: what the callback has for the channel: nothing when the
\* frame pointer is null, else the VideoData built from the converted bytes
VideoRefresh_Sends(args, bpp) ==
    IF args.frame.null
    THEN << >>
    ELSE << [frame_buffer |->
               convert_pixel_array_from_rgb565_to_xrgb8888(
                   ReadFrame(args, length_of_frame_buffer(
                       args.frame.pitch, args.frame.height, bpp))).result,
             width |-> args.frame.width, height |-> args.frame.height,
             pitch |-> args.frame.pitch] >>

\* video.rs:23-47; a call that faults or panics never returns
VideoRefresh_Body ==
    /\ crash = "none"
    /\ v_pc = "called"
    /\ UNCHANGED v_args
    /\ LET bpp == BYTES_PER_PIXEL
           len == length_of_frame_buffer(v_args.frame.pitch,
                                         v_args.frame.height, bpp)
           out == VideoRefresh_Sends(v_args, bpp)
       IN IF ~v_args.frame.null /\ ReadFaults(v_args, len)
          THEN /\ crash' = "fault"
               /\ UNCHANGED << VIDEO_DATA_CHANNEL, v_err >>
          ELSE IF ~v_args.frame.null
                    /\ convert_pixel_array_from_rgb565_to_xrgb8888(
                           ReadFrame(v_args, len)).panic
          THEN /\ crash' = "assert"
               /\ UNCHANGED << VIDEO_DATA_CHANNEL, v_err >>
          ELSE IF out = << >>
          THEN UNCHANGED << VIDEO_DATA_CHANNEL, v_err, crash >>
          ELSE IF video_rx_alive
          THEN /\ VIDEO_DATA_CHANNEL' = VIDEO_DATA_CHANNEL \o out
               /\ UNCHANGED << v_err, crash >>
          ELSE /\ v_err' = TRUE
               /\ crash' = IF OnVideoSendError = "logged" THEN crash
                                                         ELSE "send"
               /\ UNCHANGED VIDEO_DATA_CHANNEL
    /\ v_pc' = IF crash' = "none" THEN "returned" ELSE v_pc
    /\ after_null' = IF crash' # "none" THEN after_null
                     ELSE IF v_args.frame.null THEN "null" ELSE "no"
    /\ v_len' = IF v_args.frame.null THEN v_len
                ELSE length_of_frame_buffer(v_args.frame.pitch,
                                            v_args.frame.height, BYTES_PER_PIXEL)
    /\ sink_bpp' = IF Len(VIDEO_DATA_CHANNEL') > Len(VIDEO_DATA_CHANNEL)
                   THEN Append(sink_bpp, BYTES_PER_PIXEL) ELSE sink_bpp
    /\ UNCHANGED << video_rx_alive, BYTES_PER_PIXEL, window_size, surface,
                    updates >>
    /\ UNCHANGED v_taken
    /\ UNCHANGED << audio_vars, main_vars, fmt_vars, pure_vars, input_vars >>

\* the core carries on after the call
VideoRefresh_Return ==
    /\ crash = "none"
    /\ v_pc = "returned"
    /\ v_pc' = "idle"
    /\ v_args' = None
    /\ v_len' = 0
    /\ UNCHANGED << VIDEO_DATA_CHANNEL, video_rx_alive, BYTES_PER_PIXEL, v_err,
                    window_size, surface, updates, after_null, sink_bpp,
                    crash >>
    /\ UNCHANGED v_taken
    /\ UNCHANGED << audio_vars, main_vars, fmt_vars, pure_vars, input_vars >>

\* the receiving side of the video channel is dropped
VideoReceiver_Gone ==
    /\ video_rx_alive
    /\ video_rx_alive' = FALSE
    /\ VIDEO_DATA_CHANNEL' = << >>
    /\ sink_bpp' = << >>
    /\ UNCHANGED << BYTES_PER_PIXEL, v_pc, v_args, v_err, window_size, surface,
                    updates, after_null, v_len, crash >>
    /\ UNCHANGED v_taken
    /\ UNCHANGED << audio_vars, main_vars, fmt_vars, pure_vars, input_vars >>

(***************************************************************************)
(* Presenter (video.rs:101-154)                                            *)
(***************************************************************************)
WindowSizes == { << 2, 2 >>, << 4, 3 >> }

\* usize::max where usize::min is meant
MinOf_Max(a, b) == IF a <= b THEN b ELSE a

\* video.rs:111: scale_y.min(scale_x)
MinOf(a, b) == IF a <= b THEN a ELSE b

\* video.rs:104-119: the geometry of one blit
Geometry(video_data, ws, bpp) ==
    LET scale_x == ws[1] \div video_data.width
        scale_y == ws[2] \div video_data.height
        scale == MinOf(scale_y, scale_x)
        target_width == video_data.width * scale
        target_height == video_data.height * scale
    IN [scale |-> scale, target_width |-> target_width,
        target_height |-> target_height,
        padding_x |-> (ws[1] - target_width) \div bpp,
        padding_y |-> (ws[2] - target_height) \div bpp]

\* video.rs:123-145: the writes of the blit loops, each <<y, x, dx, dy>> with
\* the window index it writes and the pixel it writes there
BlitWrites(video_data, ws, bpp) ==
    LET g == Geometry(video_data, ws, bpp)
    IN { [at |-> << y, x, dx, dy >>,
          window_index |-> ((y * g.scale + g.padding_y) * ws[1] + g.padding_x)
                             + x * g.scale + dy * ws[1] + dx,
          source_pixel |->
              LET source_index == (y * video_data.pitch) \div bpp + x
              IN IF source_index < Len(video_data.frame_buffer)
                 THEN video_data.frame_buffer[source_index + 1]
                 ELSE 0] :
         y \in 0..(video_data.height - 1), x \in 0..(video_data.width - 1),
         dx \in 0..(g.scale - 1), dy \in 0..(g.scale - 1) }

\* the order in which the loops run: y, then x, then dx, then dy
Before(p, q) ==
    \E k \in 1..4 : /\ p[k] < q[k]
                     /\ \A j \in 1..(k - 1) : p[j] = q[j]

\* video.rs:101-145: the window buffer one frame is blitted into; panic on
\* a division by zero or a write outside the window buffer
RenderBuffer(video_data, ws, bpp) ==
    IF video_data.width = 0 \/ video_data.height = 0 \/ bpp = 0
    THEN [panic |-> TRUE, window_buffer |-> << >>]
    ELSE LET writes == BlitWrites(video_data, ws, bpp)
         IN IF \E w \in writes : w.window_index >= ws[1] * ws[2]
            THEN [panic |-> TRUE, window_buffer |-> << >>]
            ELSE [panic |-> FALSE,
                  window_buffer |-> [i \in 1..(ws[1] * ws[2]) |->
                    LET hits == { w \in writes : w.window_index = i - 1 }
                    IN IF hits = {} THEN 0
                       ELSE (CHOOSE w \in hits :
                               \A o \in hits : o = w \/ Before(o.at, w.at)).source_pixel]]

\* the frames of one pass, blitted one after the other: the surface after
\* the pass; panic as soon as one blit panics
\* a pass that gives the window a cleared buffer whatever it finds
RenderAll_Blank(frames, ws, bpp, shown) ==
    [panic |-> FALSE, window_buffer |-> [i \in 1..(ws[1] * ws[2]) |-> 0]]

RECURSIVE RenderAll(_, _, _, _)
RenderAll(frames, ws, bpp, shown) ==
    IF frames = << >> THEN [panic |-> FALSE, window_buffer |-> shown]
    ELSE LET r == RenderBuffer(Head(frames), ws, bpp)
         IN IF r.panic THEN r
            ELSE RenderAll(Tail(frames), ws, bpp, r.window_buffer)

\* video.rs:101-154: one presenter pass takes every frame waiting on the
\* channel (try_iter) and updates the window with each of them
render_frame ==
    /\ crash = "none"
    /\ video_rx_alive
    /\ v_pc = "idle"
    /\ a_pc[SimThread] = "idle"
    /\ LET shown == RenderAll(VIDEO_DATA_CHANNEL, window_size, BYTES_PER_PIXEL,
                              surface)
       IN IF shown.panic
          THEN /\ crash' = "panic"
               /\ UNCHANGED << surface, updates >>
          ELSE /\ surface' = shown.window_buffer
               /\ updates' = Len(VIDEO_DATA_CHANNEL)
               /\ UNCHANGED crash
    /\ VIDEO_DATA_CHANNEL' = << >>
    /\ v_taken' = Len(VIDEO_DATA_CHANNEL)
    /\ sink_bpp' = << >>
    /\ after_null' = IF crash' = "none" /\ after_null \in {"null", "shown"}
                     THEN "shown" ELSE after_null
    /\ UNCHANGED << video_rx_alive, BYTES_PER_PIXEL, v_pc, v_args, v_err,
                    window_size, v_len >>
    /\ UNCHANGED << audio_vars, main_vars, fmt_vars, pure_vars, input_vars >>

(***************************************************************************)
(* The monolithic revision (main.rs): the audio batch callback overwrites  *)
(* CURRENT_EMULATOR_STATE.audio_data, the main loop sends a reference to    *)
(* that field once per iteration, and the audio thread plays what the       *)
(* reference leads to.                                                      *)
(***************************************************************************)
\* chunks the core hands over in one run of the monolithic model
MaxChunks == 3
\* chunks submitted to the output device in one run of the monolithic model
MaxSubmitted == 3

\* what a read of freed or half-written memory may yield
Garbage == << -1 >>

\* the n-th chunk the core hands over: one frame, told apart by its samples
MainAudioInput(n) == AudioInput(1, n)

\* main.rs:541: the main loop enters retro_run
Main_retro_run ==
    /\ m_pc = "top"
    /\ m_pc' = "run"
    /\ UNCHANGED << m_audio_data, m_channel, m_recv, m_header, handed,
                    submitted >>
    /\ UNCHANGED << audio_vars, video_vars, crash, fmt_vars,
                    pure_vars, input_vars >>

\* main.rs:195-202: the core, inside retro_run, calls the audio batch
\* callback: the vector held in audio_data is dropped and a new one, a copy
\* of the frames * AUDIO_CHANNELS samples, takes its place
Main_audio_sample_batch_callback(args) ==
    /\ m_pc = "run"
    /\ Len(handed) < MaxChunks
    /\ LET audio_slice == from_raw_parts(args.audio_data,
                                         args.frames * AUDIO_CHANNELS)
       IN /\ m_audio_data' = [id |-> Len(handed) + 1, data |-> audio_slice]
          /\ handed' = Append(handed, audio_slice)
    /\ UNCHANGED << m_pc, m_channel, m_recv, m_header, submitted >>
    /\ UNCHANGED << audio_vars, video_vars, crash, fmt_vars,
                    pure_vars, input_vars >>

\* main.rs:541: retro_run returns, after any number of callbacks
Main_retro_run_returns ==
    /\ m_pc = "run"
    /\ m_pc' = "ran"
    /\ UNCHANGED << m_audio_data, m_channel, m_recv, m_header, handed,
                    submitted >>
    /\ UNCHANGED << audio_vars, video_vars, crash, fmt_vars,
                    pure_vars, input_vars >>

\* main.rs:204-212 and 543: a reference to audio_data goes on the channel
\* when the field holds a vector; the entry notes which vector that was
send_audio_to_thread ==
    /\ m_pc = "ran"
    /\ Len(m_channel) < MaxQueue
    /\ m_channel' = IF m_audio_data = None THEN m_channel
                    ELSE Append(m_channel, m_audio_data.id)
    /\ m_pc' = "sent"
    /\ UNCHANGED << m_audio_data, m_recv, m_header, handed, submitted >>
    /\ UNCHANGED << audio_vars, video_vars, crash, fmt_vars,
                    pure_vars, input_vars >>

\* main.rs:545-565: the rest of the iteration (the frame is shown, the
\* buttons are stored); it leaves the audio state alone
Main_end_of_iteration ==
    /\ m_pc = "sent"
    /\ m_pc' = "top"
    /\ UNCHANGED << m_audio_data, m_channel, m_recv, m_header, handed,
                    submitted >>
    /\ UNCHANGED << audio_vars, video_vars, crash, fmt_vars,
                    pure_vars, input_vars >>

\* main.rs:452: receiver.recv() in the audio thread
Main_audio_thread_recv ==
    /\ m_recv = 0
    /\ m_header = None
    /\ Len(m_channel) > 0
    /\ m_recv' = Head(m_channel)
    /\ m_channel' = Tail(m_channel)
    /\ UNCHANGED << m_pc, m_audio_data, m_header, handed, submitted >>
    /\ UNCHANGED << audio_vars, video_vars, crash, fmt_vars,
                    pure_vars, input_vars >>

\* main.rs:29-31: play_audio follows the reference (the sink is empty: it
\* is new, or sleep_until_end has returned) and takes pointer and length of
\* the vector that audio_data holds now
play_audio_reads ==
    /\ m_recv # 0
    /\ m_header' = m_audio_data
    /\ m_recv' = 0
    /\ UNCHANGED << m_pc, m_audio_data, m_channel, handed, submitted >>
    /\ UNCHANGED << audio_vars, video_vars, crash, fmt_vars,
                    pure_vars, input_vars >>

\* main.rs:32-35: the samples are copied into a SamplesBuffer and played to
\* the end.  If the callback has replaced the vector in the meantime, the
\* copy reads memory that was freed: the old samples or anything else.
play_audio_submits ==
    /\ m_header # None
    /\ Len(submitted) < MaxSubmitted
    /\ \E played \in (IF m_audio_data.id = m_header.id
                       THEN { m_header.data }
                       ELSE { m_header.data, Garbage }) :
          submitted' = Append(submitted, played)
    /\ m_header' = None
    /\ UNCHANGED << m_pc, m_audio_data, m_channel, m_recv, handed >>
    /\ UNCHANGED << audio_vars, video_vars, crash, fmt_vars,
                    pure_vars, input_vars >>

\* main.rs:249-261 (audio_data: None) and 445 (the channel is new)
MainInit ==
    /\ m_pc = "top"
    /\ m_audio_data = None
    /\ m_channel = << >>
    /\ m_recv = 0
    /\ m_header = None
    /\ handed = << >>
    /\ submitted = << >>

(***************************************************************************)
(* Pixel-format negotiation: the environment callback (libretro.rs:85-105) *)
(* and the consumer of the format channel (video.rs:49-64)                 *)
(***************************************************************************)
\* libretro_sys: the commands the callback tells apart
ENVIRONMENT_GET_CAN_DUPE == 3
ENVIRONMENT_SET_PIXEL_FORMAT == 10
\* a command the callback has no arm for
ENVIRONMENT_OTHER == 1

EnvCommands ==
    { ENVIRONMENT_GET_CAN_DUPE, ENVIRONMENT_SET_PIXEL_FORMAT, ENVIRONMENT_OTHER }

\* the numbers a core may pass as a pixel format: the three known ones and
\* one that names no format
EnvData == 0..3

\* from_uint as it would be if an unknown number fell back to a format
PixelFormat_from_uint_lenient(n) ==
    CASE n = 0 -> "ARGB1555"
      [] n = 2 -> "RGB565"
      [] OTHER -> "ARGB8888"

\* libretro.rs:95: PixelFormat::from_uint, "None" for a number that names
\* no format
PixelFormat_from_uint(n) ==
    CASE n = 0 -> "ARGB1555"
      [] n = 1 -> "ARGB8888"
      [] n = 2 -> "RGB565"
      [] OTHER -> "None"

\* libretro.rs:85-105: one call of the environment callback.  unwrap() on an
\* unknown format panics before anything is sent or returned.
libretro_environment_callback(command, return_data) ==
    /\ crash = "none"
    /\ v_pc = "idle"
    /\ a_pc[SimThread] = "idle"
    /\ IF command = ENVIRONMENT_GET_CAN_DUPE
       THEN /\ env_data' = << TRUE >>
            /\ env_ret' = << FALSE >>
            /\ UNCHANGED << PIXEL_FORMAT_CHANNEL, announced, crash >>
       ELSE IF command = ENVIRONMENT_SET_PIXEL_FORMAT
       THEN LET pixel_format == PixelFormat_from_uint(return_data)
            IN IF pixel_format = "None"
               THEN /\ crash' = "unknown_format"
                    /\ env_ret' = << >>
                    /\ env_data' = << >>
                    /\ UNCHANGED << PIXEL_FORMAT_CHANNEL, announced >>
               ELSE /\ Len(PIXEL_FORMAT_CHANNEL) < MaxQueue
                    /\ PIXEL_FORMAT_CHANNEL'
                          = Append(PIXEL_FORMAT_CHANNEL, pixel_format)
                    /\ announced' = pixel_format
                    /\ env_ret' = << TRUE >>
                    /\ env_data' = << >>
                    /\ UNCHANGED crash
       ELSE /\ env_ret' = << FALSE >>
            /\ env_data' = << >>
            /\ UNCHANGED << PIXEL_FORMAT_CHANNEL, announced, crash >>
    /\ UNCHANGED << cs_pixel_format, cs_bytes_per_pixel, negotiated >>
    /\ UNCHANGED << audio_vars, video_vars, main_vars, pure_vars, input_vars >>

\* the match as it would be with RGB565 taken for a 32-bit format
BytesPerPixelOf_565Wide(pixel_format) ==
    IF pixel_format = "ARGB1555" THEN 2 ELSE 4

\* video.rs:54-57
BytesPerPixelOf(pixel_format) ==
    IF pixel_format \in { "ARGB1555", "RGB565" } THEN 2 ELSE 4

\* video.rs:52-61: the loop over the formats waiting on the channel; st is
\* the pixel format and the bytes-per-pixel of current_state and the shared
\* bytes-per-pixel value
RECURSIVE DrainFormats(_, _)
DrainFormats(formats, st) ==
    IF formats = << >> THEN st
    ELSE LET bpp == BytesPerPixelOf(Head(formats))
         IN DrainFormats(Tail(formats),
                         [pixel_format |-> Head(formats),
                          bytes_per_pixel |-> bpp,
                          shared |-> bpp])

\* the drain as it would be with a blocking receive: it waits for an event
set_up_pixel_format_recv ==
    /\ PIXEL_FORMAT_CHANNEL # << >>
    /\ crash = "none"
    /\ v_pc = "idle"
    /\ a_pc[SimThread] = "idle"
    /\ LET st == DrainFormats(PIXEL_FORMAT_CHANNEL,
                              [pixel_format |-> cs_pixel_format,
                               bytes_per_pixel |-> cs_bytes_per_pixel,
                               shared |-> BYTES_PER_PIXEL])
       IN /\ cs_pixel_format' = st.pixel_format
          /\ cs_bytes_per_pixel' = st.bytes_per_pixel
          /\ BYTES_PER_PIXEL' = st.shared
    /\ PIXEL_FORMAT_CHANNEL' = << >>
    /\ negotiated' = TRUE
    /\ UNCHANGED << VIDEO_DATA_CHANNEL, video_rx_alive, v_pc, v_args, v_err,
                    window_size, surface, updates, after_null, v_len,
                    sink_bpp >>
    /\ UNCHANGED << env_ret, env_data, announced, crash >>
    /\ UNCHANGED v_taken
    /\ UNCHANGED << audio_vars, main_vars, pure_vars, input_vars >>

\* video.rs:49-64, on the simulation/display thread
set_up_pixel_format ==
    /\ crash = "none"
    /\ v_pc = "idle"
    /\ a_pc[SimThread] = "idle"
    /\ LET st == DrainFormats(PIXEL_FORMAT_CHANNEL,
                              [pixel_format |-> cs_pixel_format,
                               bytes_per_pixel |-> cs_bytes_per_pixel,
                               shared |-> BYTES_PER_PIXEL])
       IN /\ cs_pixel_format' = st.pixel_format
          /\ cs_bytes_per_pixel' = st.bytes_per_pixel
          /\ BYTES_PER_PIXEL' = st.shared
    /\ PIXEL_FORMAT_CHANNEL' = << >>
    /\ negotiated' = TRUE
    /\ UNCHANGED << VIDEO_DATA_CHANNEL, video_rx_alive, v_pc, v_args, v_err,
                    window_size, surface, updates, after_null, v_len,
                    sink_bpp >>
    /\ UNCHANGED << env_ret, env_data, announced, crash >>
    /\ UNCHANGED v_taken
    /\ UNCHANGED << audio_vars, main_vars, pure_vars, input_vars >>

(***************************************************************************)
(* The pixel converter and the presenter's geometry, each applied to one   *)
(* input drawn at the start.                                               *)
(***************************************************************************)
\* every buffer of one pixel, and buffers of other lengths, odd ones included
ConverterInputs ==
    { << b0, b1 >> : b0 \in 0..255, b1 \in 0..255 }
      \cup { << >>, << 248 >>, << 248, 0, 7 >>, << 248, 0, 7, 224 >>,
             << 0, 31, 255, 255 >>, << 4, 0, 132, 16, 0 >> }

\* video.rs:34: convert_pixel_array_from_rgb565_to_xrgb8888(buffer_slice)
PixelConverter_Call ==
    /\ px_output = None
    /\ px_output' = convert_pixel_array_from_rgb565_to_xrgb8888(px_input)
    /\ UNCHANGED << px_input, geo_in, geo_out, blit_in, blit_out >>
    /\ UNCHANGED << audio_vars, video_vars, main_vars, fmt_vars,
                    crash, input_vars >>

\* largest frame side and largest surface side the geometry is computed for
MaxSide == 3
MaxSurface == 6

\* the frame and surface of the worked example: 256x144 on 1024x576
ExampleFrame == [width |-> 256, height |-> 144]
ExampleSurface == << 1024, 576 >>

GeometryInputs ==
    { [video_data |-> [width |-> w, height |-> h], ws |-> << sw, sh >>,
       bpp |-> b] :
        w \in 1..MaxSide, h \in 1..MaxSide,
        sw \in 1..MaxSurface, sh \in 1..MaxSurface, b \in {2, 4} }
      \cup { [video_data |-> ExampleFrame, ws |-> ExampleSurface, bpp |-> b] :
               b \in {2, 4} }

\* video.rs:104-119: the geometry render_frame computes for one frame
Geometry_Call ==
    /\ geo_out = None
    /\ geo_in # None
    /\ geo_out' = Geometry(geo_in.video_data, geo_in.ws, geo_in.bpp)
    /\ UNCHANGED << px_input, px_output, geo_in, blit_in, blit_out >>
    /\ UNCHANGED << audio_vars, video_vars, main_vars, fmt_vars,
                    crash, input_vars >>

\* largest frame side and largest surface side a blit is computed for
MaxBlitSide == 2
MaxBlitSurface == 4

\* video.rs:122: vec![0; ..], the value of a window pixel no blit has written
Border == 0

\* a frame buffer of n pixels, each one different and none of them 0
BlitFrameBuffer(n) == [i \in 1..n |-> 100 + i]

\* frames of every small size, with a pitch of one row of pixels and e bytes
\* of row padding, and with a frame buffer of every length from none to all
\* the frame needs
BlitInputs ==
    { [video_data |-> [width |-> w, height |-> h, pitch |-> w * b + e,
                       frame_buffer |-> BlitFrameBuffer(n)],
       ws |-> << sw, sh >>, bpp |-> b] :
        w \in 1..MaxBlitSide, h \in 1..MaxBlitSide, e \in { 0, 1, 2, 4 },
        n \in 0..(MaxBlitSide * (MaxBlitSide + 1)),
        sw \in 1..MaxBlitSurface, sh \in 1..MaxBlitSurface, b \in {2, 4} }

\* video.rs:104-145: the window buffer render_frame builds for one frame
Blit_Call ==
    /\ blit_out = None
    /\ blit_in # None
    /\ blit_out' = RenderBuffer(blit_in.video_data, blit_in.ws, blit_in.bpp)
    /\ UNCHANGED << px_input, px_output, geo_in, geo_out, blit_in >>
    /\ UNCHANGED << audio_vars, video_vars, main_vars, fmt_vars, crash,
                    input_vars >>

\* no pure function has an input
PureIdle ==
    /\ px_input = << >>
    /\ px_output = None
    /\ geo_in = None
    /\ geo_out = None
    /\ blit_in = None
    /\ blit_out = None

VideoInit ==
    /\ VIDEO_DATA_CHANNEL = << >>
    /\ video_rx_alive = TRUE
    /\ BYTES_PER_PIXEL = 4
    /\ v_pc = "idle"
    /\ v_args = None
    /\ v_err = FALSE
    /\ window_size \in WindowSizes
    /\ surface = << >>
    /\ updates = 0
    /\ after_null = "no"
    /\ v_len = 0
    /\ sink_bpp = << >>
    /\ v_taken = -1

AudioInit ==
    /\ BUFFER_POOL = InitialPool
    /\ AUDIO_DATA_CHANNEL = << >>
    /\ audio_rx_alive = TRUE
    /\ a_pc = [c \in Callers |-> "idle"]
    /\ a_args = [c \in Callers |-> None]
    /\ buffer_arc = [c \in Callers |-> None]
    /\ a_sent = [c \in Callers |-> None]
    /\ a_err = [c \in Callers |-> FALSE]
    /\ a_ret = [c \in Callers |-> << >>]
    /\ a_acq = [c \in Callers |-> 0]
    /\ empty_acquires = 0
    /\ player = None

\* video.rs:9-15 (the default format); the 4 of the shared value is the
\* bytes_per_pixel of main.rs:254
FormatInit ==
    /\ PIXEL_FORMAT_CHANNEL = << >>
    /\ cs_pixel_format = "ARGB8888"
    /\ cs_bytes_per_pixel = 0
    /\ env_ret = << >>
    /\ env_data = << >>
    /\ announced = "none"
    /\ negotiated = FALSE

(***************************************************************************)
(* Keyboard input (input.rs:209-292)                                       *)
(***************************************************************************)
\* the keys of one poll, named by what the configuration binds them to:
\* "a" is a key of key_device_map, "other" a key bound to nothing
Keys == { "a", "save", "load", "increase", "decrease", "other" }

\* window.get_keys_pressed: no key, one key, or two different keys, the
\* second of them a slot key
KeyPolls ==
    { << >> } \cup { << k >> : k \in Keys }
      \cup { p \in { << k, l >> : k \in Keys,
                                  l \in { "increase", "decrease" } } :
                p[1] # p[2] }

\* the increase as it would be without the test for the last slot: the u8
\* wraps
SlotIncrease_Wrapping(slot) == (slot + 1) % 256

\* input.rs:251-252 (main.rs:507-508): current_save_slot += 1 on a u8,
\* unless the slot is 255
SlotIncrease(slot) == IF slot # 255 THEN (slot + 1) % 256 ELSE slot

\* input.rs:263-264 (main.rs:517-518): current_save_slot -= 1 on a u8,
\* unless the slot is 0
SlotDecrease(slot) == IF slot # 0 THEN (slot + 255) % 256 ELSE slot

\* input.rs:228-274: what one pressed key does to the save slot; saving and
\* loading a state read the slot and leave it alone
PressKey(key, slot) ==
    CASE key = "increase" -> SlotIncrease(slot)
      [] key = "decrease" -> SlotDecrease(slot)
      [] OTHER -> slot

\* input.rs:219-275: the loop over the pressed keys
RECURSIVE PressKeys(_, _)
PressKeys(keys, slot) ==
    IF keys = << >> THEN slot
    ELSE PressKeys(Tail(keys), PressKey(Head(keys), slot))

\* input.rs:222-226 and 277-291: the entry of the mapped key after the
\* pressed and then the released keys of one poll
ButtonAfter(pressed, released, game_pad_active, button) ==
    IF game_pad_active THEN button
    ELSE IF \E i \in DOMAIN released : released[i] = "a" THEN 0
    ELSE IF \E i \in DOMAIN pressed : pressed[i] = "a" THEN 1
    ELSE button

\* input.rs:209-292: one call, for the keys the window reports
handle_keyboard_input(pressed, released, game_pad_active) ==
    /\ crash = "none"
    /\ current_save_slot' = PressKeys(pressed, current_save_slot)
    /\ buttons_pressed'
         = ButtonAfter(pressed, released, game_pad_active, buttons_pressed)
    /\ kb_keys' = pressed
    /\ kb_before' = current_save_slot
    /\ UNCHANGED << audio_vars, video_vars, main_vars, fmt_vars, pure_vars,
                    crash >>

\* libretro.rs:45 (u8, skipped by the argument parser: 0), main.rs:259
InputInit ==
    /\ current_save_slot = 0
    /\ buttons_pressed = 0
    /\ kb_keys = << >>
    /\ kb_before = 0

\* the pipeline before its first step
PipelineInit ==
    /\ AudioInit
    /\ VideoInit
    /\ MainInit
    /\ FormatInit
    /\ InputInit
    /\ crash = "none"

Init ==
    /\ PipelineInit
    /\ PureIdle

\* the converter is given one of its inputs
InitConv ==
    /\ PipelineInit
    /\ window_size = << 2, 2 >>
    /\ px_input \in ConverterInputs
    /\ px_output = None
    /\ geo_in = None
    /\ geo_out = None
    /\ blit_in = None
    /\ blit_out = None

\* the geometry is given one of its inputs
InitScale ==
    /\ PipelineInit
    /\ window_size = << 2, 2 >>
    /\ px_input = << >>
    /\ px_output = None
    /\ geo_in \in GeometryInputs
    /\ geo_out = None
    /\ blit_in = None
    /\ blit_out = None


AudioBatch(c, inputs) ==
    \/ \E args \in inputs : AudioBatch_Call(c, args)
    \/ AudioBatch_Acquire(c)
    \/ AudioBatch_Send(c)
    \/ AudioBatch_Release(c)
    \/ AudioBatch_Return(c)

AudioThread ==
    \/ AudioPlayer_Recv
    \/ AudioPlayer_Played
    \/ AudioPlayer_Gone

VideoRefresh(inputs) ==
    \/ \E args \in inputs : VideoRefresh_Call(args)
    \/ VideoRefresh_Body
    \/ VideoRefresh_Return

\* the simulation thread runs both sinks and the presenter; the audio thread
\* runs beside it
Next ==
    \/ AudioBatch(SimThread, LeanAudioInputs)
    \/ AudioThread
    \/ VideoRefresh(LeanVideoInputs)
    \/ VideoReceiver_Gone
    \/ render_frame

Spec == Init /\ [][Next]_vars

\* the audio path alone, over every audio input
NextAudio ==
    \/ AudioBatch(SimThread, AudioInputs)
    \/ AudioThread

SpecAudio == Init /\ [][NextAudio]_vars

\* the video path alone, over every video input
NextVideo ==
    \/ VideoRefresh(VideoInputs)
    \/ VideoReceiver_Gone
    \/ render_frame

SpecVideo == Init /\ [][NextVideo]_vars

\* the pool under re-entrant use: any caller may be inside the callback
NextPool ==
    \/ \E c \in Callers : AudioBatch(c, PoolInputs)
    \/ AudioThread

SpecPool == Init /\ [][NextPool]_vars

\* the steps the simulation thread takes inside a sink call
SinkStep ==
    \/ AudioBatch_Acquire(SimThread)
    \/ AudioBatch_Send(SimThread)
    \/ AudioBatch_Release(SimThread)
    \/ VideoRefresh_Body

\* Spec with a simulation thread that keeps running while it is inside a
\* sink call; nothing is assumed of the audio thread or of the presenter
LiveSpec == Init /\ [][Next]_vars /\ WF_vars(SinkStep)

\* the monolithic revision: main loop, core and audio thread
NextMain ==
    \/ Main_retro_run
    \/ Main_audio_sample_batch_callback(MainAudioInput(Len(handed) + 1))
    \/ Main_retro_run_returns
    \/ send_audio_to_thread
    \/ Main_end_of_iteration
    \/ Main_audio_thread_recv
    \/ play_audio_reads
    \/ play_audio_submits

SpecMain == Init /\ [][NextMain]_vars

\* the format negotiation by itself: the core announces, the consumer drains
NextFormat ==
    \/ \E command \in EnvCommands, return_data \in EnvData :
          libretro_environment_callback(command, return_data)
    \/ set_up_pixel_format

SpecFormat == Init /\ [][NextFormat]_vars

(***************************************************************************)
(* The driver of the modular revision, after spec sections 4.5 and 5: the  *)
(* core announces its format while it is initialized (libretro.rs:163-164),*)
(* the driver drains the format channel once, and only then the core       *)
(* produces frames and the presenter shows them.                           *)
(***************************************************************************)
Driver_Core_new ==
    /\ ~negotiated
    /\ \E command \in EnvCommands, return_data \in EnvData :
          libretro_environment_callback(command, return_data)

Driver_set_up_pixel_format ==
    /\ ~negotiated
    /\ set_up_pixel_format

Driver_retro_run ==
    /\ negotiated
    /\ VideoRefresh(LeanVideoInputs)

Driver_render_frame ==
    /\ negotiated
    /\ render_frame

NextDriver ==
    \/ Driver_Core_new
    \/ Driver_set_up_pixel_format
    \/ Driver_retro_run
    \/ Driver_render_frame

SpecDriver == Init /\ [][NextDriver]_vars

\* the blit is given one of its inputs
InitBlit ==
    /\ PipelineInit
    /\ window_size = << 2, 2 >>
    /\ px_input = << >>
    /\ px_output = None
    /\ geo_in = None
    /\ geo_out = None
    /\ blit_in \in BlitInputs
    /\ blit_out = None

\* the blit on each of its inputs
NextBlit == Blit_Call

SpecBlit == InitBlit /\ [][NextBlit]_vars

\* the keyboard is polled once per iteration of the main loop
NextInput ==
    \E pressed \in KeyPolls, released \in { << >>, << "a" >> },
       game_pad_active \in BOOLEAN :
        handle_keyboard_input(pressed, released, game_pad_active)

SpecInput == Init /\ [][NextInput]_vars

\* the pixel converter on each of its inputs
NextConv == PixelConverter_Call

SpecConv == InitConv /\ [][NextConv]_vars

\* the presenter's geometry on each of its inputs
NextScale == Geometry_Call

SpecScale == InitScale /\ [][NextScale]_vars

(***************************************************************************)
(* Audio Sample Sink                                                       *)
(***************************************************************************)
\* C1: the chunks the audio thread submits to the output device are the
\* chunks the core handed to the audio batch callback, in the same order:
\* at every moment what has been submitted is an initial part of what has
\* been handed over (nothing reordered, nothing twice, nothing left out).
AudioOrderPreserved ==
    /\ Len(submitted) <= Len(handed)
    /\ submitted = SubSeq(handed, 1, Len(submitted))

\* C2: the audio batch callback accepts every frame: the buffer it hands to
\* the audio channel holds exactly the frame_count * 2 samples it was given,
\* in the same order (nothing left over from the buffer's earlier contents,
\* nothing cut at the standard chunk length), and it returns frame_count.
AcceptsEveryFrame ==
    /\ [](\A c \in Callers :
            a_pc[c] = "returned" => a_ret[c] = << a_args[c].frames >>)
    /\ [][\A c \in Callers :
            a_pc[c] = "acquired" /\ a_pc'[c] = "sent" /\ audio_rx_alive =>
               /\ Len(AUDIO_DATA_CHANNEL') = Len(AUDIO_DATA_CHANNEL) + 1
               /\ SubSeq(AUDIO_DATA_CHANNEL', 1, Len(AUDIO_DATA_CHANNEL))
                     = AUDIO_DATA_CHANNEL
               /\ LET chunk == AUDIO_DATA_CHANNEL'[Len(AUDIO_DATA_CHANNEL')].data
                  IN /\ Len(chunk) = a_args[c].frames * AUDIO_CHANNELS
                     /\ chunk = a_args[c].audio_data]_vars

\* a chunk longer than the standard chunk has been put on the channel
LongChunkSent ==
    /\ a_pc[SimThread] = "sent"
    /\ a_args[SimThread].frames * AUDIO_CHANNELS > BUFFER_LENGTH
    /\ Len(AUDIO_DATA_CHANNEL) > 0
    /\ AUDIO_DATA_CHANNEL[Len(AUDIO_DATA_CHANNEL)].data = a_args[SimThread].audio_data

\* C3: a send that fails because the receiving side is gone is absorbed:
\* the simulation thread never dies of it, the audio callback still puts the
\* buffer it acquired back on the free list and returns frame_count, and the
\* video callback returns as well.
AbsorbsFailedSend ==
    /\ crash # "send"
    /\ a_err[SimThread] => a_pc[SimThread] \in {"sent", "returned"}
    /\ a_pc[SimThread] = "returned" /\ a_err[SimThread] =>
          /\ a_ret[SimThread] = << a_args[SimThread].frames >>
          /\ \E i \in DOMAIN BUFFER_POOL : BUFFER_POOL[i].id = a_acq[SimThread]
    /\ v_err => v_pc \in {"returned", "idle", "called"}
    /\ v_err /\ v_pc = "returned" => VIDEO_DATA_CHANNEL = << >>

\* an audio call has returned after its send failed, and a video call before
\* it had its send fail too
FailedSendsAbsorbed ==
    /\ a_pc[SimThread] = "returned"
    /\ a_err[SimThread]
    /\ ~audio_rx_alive
    /\ v_err
    /\ v_pc = "idle"

\* C4: the buffer placed on the audio channel is the very buffer acquired
\* from the pool in the same invocation.
SendsPooledBuffer ==
    \A c \in Callers :
        a_pc[c] = "sent" => a_sent[c].id = buffer_arc[c].id

(***************************************************************************)
(* BufferPool                                                              *)
(***************************************************************************)
\* the buffers the pool manages: those on the free list and those acquired
FreeIds == { BUFFER_POOL[i].id : i \in DOMAIN BUFFER_POOL }

AcquiredIds == { b.id : b \in Held(buffer_arc) }

\* who can reach pool-side buffer b of the modular revision
PipelineOwners(b) ==
    (IF b \in FreeIds THEN {"pool"} ELSE {})
      \cup (IF b \in AcquiredIds \/ b \in { x.id : x \in Held(a_sent) }
            THEN {"producer"} ELSE {})
      \cup (IF \E i \in DOMAIN AUDIO_DATA_CHANNEL : AUDIO_DATA_CHANNEL[i].id = b
            THEN {"channel"} ELSE {})
      \cup (IF player # None /\ player.id = b THEN {"consumer"} ELSE {})

\* who can reach vector b of the monolithic revision: the references on the
\* channel and the one the audio thread received lead to the vector that
\* audio_data holds
MailboxOwners(b) ==
    (IF m_audio_data # None /\ m_audio_data.id = b THEN {"producer"} ELSE {})
      \cup (IF m_audio_data # None /\ m_audio_data.id = b /\ m_channel # << >>
            THEN {"channel"} ELSE {})
      \cup (IF \/ m_audio_data # None /\ m_audio_data.id = b /\ m_recv # 0
               \/ m_header # None /\ m_header.id = b
            THEN {"consumer"} ELSE {})

\* C5: every audio buffer has at most one owner among pool, producer,
\* channel and consumer, and a buffer the consumer is reading has not been
\* dropped or replaced by the producer.
SingleOwner ==
    /\ \A b \in 1..(POOL_SIZE + 2 * NumCallers + MaxQueue + 1) :
          Cardinality(PipelineOwners(b)) <= 1
    /\ \A b \in 1..MaxChunks : Cardinality(MailboxOwners(b)) <= 1
    /\ m_header # None => m_header.id = m_audio_data.id

\* C6: under any interleaving of acquires and releases, the number of
\* distinct pool buffers in circulation is at most POOL_SIZE plus the number
\* of acquires that found the free list empty, and no buffer is held by two
\* acquirers, or held and free, at once.
PoolConservation ==
    /\ Cardinality(FreeIds \cup AcquiredIds) <= POOL_SIZE + empty_acquires
    /\ \A c, d \in Callers :
          c # d /\ buffer_arc[c] # None /\ buffer_arc[d] # None =>
             buffer_arc[c].id # buffer_arc[d].id
    /\ FreeIds \cap AcquiredIds = {}
    /\ Cardinality(FreeIds) = Len(BUFFER_POOL)

\* two callers hold a buffer each, one of them allocated on an empty list
TwoAcquirers ==
    /\ empty_acquires > 0
    /\ \E c, d \in Callers :
          c # d /\ buffer_arc[c] # None /\ buffer_arc[d] # None

\* the free list without its i-th buffer
Without(pool, i) == SubSeq(pool, 1, i - 1) \o SubSeq(pool, i + 1, Len(pool))

\* one acquire by caller c, as a step
AcquireStep(c) == a_pc[c] = "called" /\ a_pc'[c] = "acquired"

\* C7: an acquire takes one buffer off a non-empty free list, and on an
\* empty one returns a newly allocated buffer of BUFFER_LENGTH zeros, leaving
\* the list as it was; a caller that has entered the callback can always
\* take this step, whatever the free list holds.
AcquireNeverWaits ==
    /\ [](\A c \in Callers :
            a_pc[c] = "called" /\ crash = "none" => ENABLED AudioBatch_Acquire(c))
    /\ [][\A c \in Callers :
            AcquireStep(c) =>
               IF BUFFER_POOL # << >>
               THEN \E i \in DOMAIN BUFFER_POOL :
                        /\ buffer_arc'[c] = BUFFER_POOL[i]
                        /\ BUFFER_POOL' = Without(BUFFER_POOL, i)
               ELSE /\ buffer_arc'[c].data = Zeroed(BUFFER_LENGTH)
                    /\ buffer_arc'[c].id \notin LiveIds
                    /\ BUFFER_POOL' = << >>]_vars

\* a caller holds a buffer that was allocated because the list was empty
AcquiredOnEmptyList ==
    \E c \in Callers :
        /\ a_pc[c] = "acquired"
        /\ buffer_arc[c].id > POOL_SIZE
        /\ BUFFER_POOL = << >>

SinkCallsReturn ==
    /\ (a_pc[SimThread] = "called") ~> (a_pc[SimThread] = "returned")
    /\ (v_pc = "called") ~> (v_pc = "returned")

\* C10: a video refresh call with a null frame pointer returns having
\* changed nothing but its own position (nothing sent, no shared state
\* touched), and a presenter pass that finds no frame waiting leaves the
\* window as it was: the frame shown before the null calls stays shown.
NullRefreshIsNoOp ==
    /\ [][v_pc = "called" /\ v_args.frame.null /\ v_pc' # v_pc =>
            /\ v_pc' = "returned"
            /\ UNCHANGED << VIDEO_DATA_CHANNEL, video_rx_alive,
                            BYTES_PER_PIXEL, window_size, surface, updates,
                            v_err, crash, audio_vars >>]_vars
    /\ [][render_frame /\ VIDEO_DATA_CHANNEL = << >> =>
            surface' = surface /\ crash' = "none"]_vars

\* a frame with a lit pixel is on the window, a null refresh has returned
\* since, and the presenter pass after it, which found nothing waiting, has
\* left the frame there
FrameKeptAfterNullRefresh ==
    /\ after_null = "shown"
    /\ updates = 0
    /\ surface # << >>
    /\ \E i \in DOMAIN surface : surface[i] # 0

(***************************************************************************)
(* PixelConverter                                                          *)
(***************************************************************************)
\* the positions of the one bits of n, a value below 2^24
Bits(n) == { i \in 0..23 : (n \div 2^i) % 2 = 1 }

\* the one bits of (v << k) | (v >> m) within a byte
ReplicatedBits(v, k, m) ==
    { i \in 0..7 : i \in Bits(v * 2^k) \/ i \in Bits(v \div 2^m) }

\* the one bits of the 32-bit value the contract gives for the bytes (b0, b1)
ContractBits(b0, b1) ==
    LET red5 == b0 \div 8
        green6 == (b0 % 8) * 8 + b1 \div 32
        blue5 == b1 % 32
    IN { i + 16 : i \in ReplicatedBits(red5, 3, 2) }
         \cup { i + 8 : i \in ReplicatedBits(green6, 2, 3) }
         \cup ReplicatedBits(blue5, 3, 2)

\* C13: for every even-length byte buffer the converter returns one value
\* per 2 input bytes, each below 2^24 (top byte zero) and made of
\* red8 = (red5<<3)|(red5>>2), green8 = (green6<<2)|(green6>>3) and
\* blue8 = (blue5<<3)|(blue5>>2) at bits 16, 8 and 0, where red5 = b0>>3,
\* green6 = ((b0&7)<<3)|(b1>>5), blue5 = b1&31; (0xF8, 0x00) gives 0xFF0000.
PixelConverterContract ==
    px_output # None /\ Len(px_input) % 2 = 0 =>
        /\ ~px_output.panic
        /\ Len(px_output.result) = Len(px_input) \div 2
        /\ \A i \in DOMAIN px_output.result :
              /\ px_output.result[i] \in 0..16777215
              /\ Bits(px_output.result[i])
                    = ContractBits(px_input[2 * i - 1], px_input[2 * i])
        /\ px_input = << 248, 0 >> => px_output.result = << 16711680 >>

\* the bytes (0xF8, 0x00) have been converted to 0xFF0000
RedConverted ==
    /\ px_input = << 248, 0 >>
    /\ px_output # None
    /\ px_output.result = << 16711680 >>

\* C14: converting a 5-6-5 pixel and re-encoding the result by truncation
\* (top 5 bits of red8, top 6 of green8, top 5 of blue8) gives back the
\* 16-bit value the two bytes hold.
RoundTrip565 ==
    px_output # None /\ Len(px_input) = 2 =>
        LET p == px_output.result[1]
            red8 == p \div 65536
            green8 == (p \div 256) % 256
            blue8 == p % 256
        IN (red8 \div 8) * 2048 + (green8 \div 4) * 32 + blue8 \div 8
             = px_input[1] * 256 + px_input[2]

\* C15: on an input of odd length the converter ends in the assertion
\* failure and returns no pixel at all.
OddLengthFailsFast ==
    px_output # None /\ Len(px_input) % 2 = 1 =>
        /\ px_output.panic
        /\ px_output.result = << >>

\* the converter has been run on three bytes and has panicked
OddInputRejected ==
    /\ px_input = << 248, 0, 7 >>
    /\ px_output # None
    /\ px_output.panic

(***************************************************************************)
(* Presenter: scale and centring                                           *)
(***************************************************************************)
\* C19: for every frame size and every surface size the presenter's scale
\* is max(1, min(surface_width div frame_width, surface_height div
\* frame_height)): it is at least 1, also on a surface smaller than the
\* frame.
ScaleClampedToOne ==
    geo_out # None =>
        LET by_width == geo_in.ws[1] \div geo_in.video_data.width
            by_height == geo_in.ws[2] \div geo_in.video_data.height
            least == IF by_width <= by_height THEN by_width ELSE by_height
        IN /\ geo_out.scale = (IF least >= 1 THEN least ELSE 1)
           /\ geo_out.scale >= 1

\* C20: when the frame fits the surface, the scale is the largest integer s
\* with W*s <= S_w and H*s <= S_h; for a 256x144 frame on a 1024x576
\* surface it is 4 and both paddings are 0.
ScaleIsLargestFit ==
    geo_out # None =>
        LET W == geo_in.video_data.width
            H == geo_in.video_data.height
            S_w == geo_in.ws[1]
            S_h == geo_in.ws[2]
            s == geo_out.scale
        IN /\ W <= S_w /\ H <= S_h =>
                /\ W * s <= S_w /\ H * s <= S_h
                /\ ~(W * (s + 1) <= S_w /\ H * (s + 1) <= S_h)
           /\ W = 256 /\ H = 144 /\ S_w = 1024 /\ S_h = 576 =>
                /\ s = 4
                /\ geo_out.padding_x = 0
                /\ geo_out.padding_y = 0

\* the geometry of the 256x144 frame on the 1024x576 surface is computed
ExampleScaled ==
    /\ geo_out # None
    /\ geo_in.video_data = ExampleFrame
    /\ geo_in.ws = ExampleSurface
    /\ geo_out.scale = 4

(***************************************************************************)
(* Video Refresh Sink                                                      *)
(***************************************************************************)
\* the four bytes of a 32-bit pixel as they lie in memory, lowest first
BytesOfPixel(p) ==
    << p % 256, (p \div 256) % 256, (p \div 65536) % 256, p \div 16777216 >>

\* the frame the sink has just sent, when its call has returned
LastSent == VIDEO_DATA_CHANNEL[Len(VIDEO_DATA_CHANNEL)]

\* a call with a frame laid out for the negotiated format has returned and
\* what it sent is still on the channel
SentAndReturned ==
    /\ v_pc = "returned"
    /\ ~v_args.frame.null
    /\ v_args.frame.pitch >= v_args.frame.width * BYTES_PER_PIXEL
    /\ ~v_err
    /\ VIDEO_DATA_CHANNEL # << >>

\* C11: with bytes-per-pixel 4 the pixels of the frame the sink sends are
\* the input pixels unchanged (the converter is not run); with
\* bytes-per-pixel 2 they are the converter's output for the pitch * height
\* bytes of the frame.
ConvertsOnly16Bit ==
    SentAndReturned =>
        IF BYTES_PER_PIXEL = 4
        THEN /\ Len(LastSent.frame_buffer) = Len(v_args.frame.mem) \div 4
             /\ \A i \in DOMAIN LastSent.frame_buffer :
                   BytesOfPixel(LastSent.frame_buffer[i])
                     = SubSeq(v_args.frame.mem, 4 * i - 3, 4 * i)
        ELSE LastSent.frame_buffer
               = [i \in 1..(Len(v_args.frame.mem) \div 2) |->
                    ConvertPixel(v_args.frame.mem[2 * i - 1],
                                 v_args.frame.mem[2 * i])]

\* C12: for a frame with pitch P and height H the sink reads exactly P * H
\* bytes at the frame pointer, whatever the bytes-per-pixel value.
ReadsPitchTimesHeight ==
    v_pc = "returned" /\ ~v_args.frame.null =>
        v_len = v_args.frame.pitch * v_args.frame.height


(***************************************************************************)
(* Pixel-format negotiation                                                *)
(***************************************************************************)
\* C16: a drain of the format channel by set_up_pixel_format leaves the
\* shared bytes-per-pixel value at 2 when the last announced format is
\* 16-bit-1555 or 16-bit-565 and at 4 when it is 32-bit-8888, with the
\* value cached in the emulator state equal to it; with no event pending
\* both values stay as they were.
DrainSetsBytesPerPixel ==
    [][set_up_pixel_format =>
         IF PIXEL_FORMAT_CHANNEL = << >>
         THEN UNCHANGED << BYTES_PER_PIXEL, cs_bytes_per_pixel >>
         ELSE LET last == PIXEL_FORMAT_CHANNEL[Len(PIXEL_FORMAT_CHANNEL)]
              IN /\ last = announced
                 /\ last \in { "ARGB1555", "RGB565" } => BYTES_PER_PIXEL' = 2
                 /\ last = "ARGB8888" => BYTES_PER_PIXEL' = 4
                 /\ cs_bytes_per_pixel' = BYTES_PER_PIXEL'
                 /\ PIXEL_FORMAT_CHANNEL' = << >>]_vars

\* the consumer has drained a channel whose last event was 16-bit-565
Drained565 ==
    /\ negotiated
    /\ announced = "RGB565"
    /\ PIXEL_FORMAT_CHANNEL = << >>
    /\ cs_pixel_format = "RGB565"
    /\ BYTES_PER_PIXEL = 2
    /\ cs_bytes_per_pixel = 2

\* C17: a call of the environment callback that announces a pixel-format
\* number outside the three known ones ends in the fatal error state: the
\* format channel and the bytes-per-pixel values are as before the call
\* and the call returns no value.
UnknownFormatIsFatal ==
    [][(\E return_data \in EnvData \ { 0, 1, 2 } :
           libretro_environment_callback(ENVIRONMENT_SET_PIXEL_FORMAT,
                                         return_data))
         => /\ crash' = "unknown_format"
            /\ UNCHANGED << PIXEL_FORMAT_CHANNEL, BYTES_PER_PIXEL,
                            cs_bytes_per_pixel >>
            /\ env_ret' = << >>]_vars

\* an unknown format was announced after a known one had been queued
UnknownFormatAnnounced ==
    /\ crash = "unknown_format"
    /\ env_ret = << >>
    /\ PIXEL_FORMAT_CHANNEL # << >>

\* a frame is with the sink or waits for the presenter
FrameInHand == v_pc # "idle" \/ VIDEO_DATA_CHANNEL # << >>

PaddingCentres ==
    geo_out # None =>
        /\ geo_out.padding_x = (geo_in.ws[1] - geo_out.target_width) \div 2
        /\ geo_out.padding_y = (geo_in.ws[2] - geo_out.target_height) \div 2

\* the blit of blit_in: geometry as the presenter computes it, and the
\* offsets that centre the picture
BlitGeometry == Geometry(blit_in.video_data, blit_in.ws, blit_in.bpp)
CentredX == (blit_in.ws[1] - BlitGeometry.target_width) \div 2
CentredY == (blit_in.ws[2] - BlitGeometry.target_height) \div 2

\* the frame buffer index of the pixel at row y, column x: rows start every
\* pitch bytes
SourceIndex(y, x) ==
    y * (blit_in.video_data.pitch \div blit_in.bpp) + x

\* the pitch is a whole number of pixels and the buffer holds every pixel
\* of the frame
WholeFrame ==
    /\ blit_in.video_data.pitch % blit_in.bpp = 0
    /\ SourceIndex(blit_in.video_data.height - 1,
                   blit_in.video_data.width - 1)
         < Len(blit_in.video_data.frame_buffer)

\* the window pixel in column px of row py
WindowPixel(px, py) == blit_out.window_buffer[py * blit_in.ws[1] + px + 1]

\* C22: after the blit of a whole frame every destination pixel of the
\* scale-by-scale block at (pad_x + x*scale, pad_y + y*scale), pad_x and
\* pad_y the centring offsets, holds the source pixel of row y and column
\* x, and every destination pixel outside the target rectangle holds the
\* border value.
BlitPlacesPixels ==
    blit_out # None /\ WholeFrame =>
        /\ ~blit_out.panic
        /\ \A y \in 0..(blit_in.video_data.height - 1),
              x \in 0..(blit_in.video_data.width - 1),
              dx \in 0..(BlitGeometry.scale - 1),
              dy \in 0..(BlitGeometry.scale - 1) :
              WindowPixel(CentredX + x * BlitGeometry.scale + dx,
                          CentredY + y * BlitGeometry.scale + dy)
                = blit_in.video_data.frame_buffer[SourceIndex(y, x) + 1]
        /\ \A px \in 0..(blit_in.ws[1] - 1), py \in 0..(blit_in.ws[2] - 1) :
              (\/ px < CentredX
               \/ px >= CentredX + BlitGeometry.target_width
               \/ py < CentredY
               \/ py >= CentredY + BlitGeometry.target_height)
                => WindowPixel(px, py) = Border

\* the source pixels <<y, x>> the presenter looks up beyond the end of the
\* frame buffer
MissingPixels ==
    { at \in (0..(blit_in.video_data.height - 1))
               \X (0..(blit_in.video_data.width - 1)) :
        (at[1] * blit_in.video_data.pitch) \div blit_in.bpp + at[2]
          >= Len(blit_in.video_data.frame_buffer) }

\* C23: when the frame buffer is shorter than the frame, the blit still
\* completes and every window pixel of the block of a missing source pixel
\* holds the sentinel colour, a value that is not the border value.
UnderrunShowsSentinel ==
    blit_out # None /\ MissingPixels # {} =>
        /\ ~blit_out.panic
        /\ \A at \in MissingPixels,
              dx \in 0..(BlitGeometry.scale - 1),
              dy \in 0..(BlitGeometry.scale - 1) :
              WindowPixel(BlitGeometry.padding_x
                            + at[2] * BlitGeometry.scale + dx,
                          BlitGeometry.padding_y
                            + at[1] * BlitGeometry.scale + dy) # Border

\* C29: for every frame at least 1 wide and 1 high, every pitch, frame
\* buffer length, surface size and bytes-per-pixel value of 2 or 4, every
\* window index the blit writes lies inside the window buffer and the blit
\* completes, also when the scale is 0.
BlitStaysInside ==
    blit_out # None =>
        /\ ~blit_out.panic
        /\ Len(blit_out.window_buffer) = blit_in.ws[1] * blit_in.ws[2]
        /\ \A w \in BlitWrites(blit_in.video_data, blit_in.ws, blit_in.bpp) :
              /\ 0 <= w.window_index
              /\ w.window_index < blit_in.ws[1] * blit_in.ws[2]

\* a frame wider than the surface went through the blit with scale 0
BlitWithScaleZero ==
    /\ blit_out # None
    /\ BlitGeometry.scale = 0
    /\ ~blit_out.panic
    /\ blit_in.video_data.frame_buffer = << >>

\* C24: a presenter pass that finds no frame on the video channel, as every
\* pass does while no frame has been received, makes no surface update:
\* the surface after the pass is the surface before it.
EmptyPassLeavesSurface ==
    [][render_frame /\ VIDEO_DATA_CHANNEL = << >>
         => /\ surface' = surface
            /\ updates' = 0
            /\ crash' = "none"]_vars

\* a pass found no frame while the surface was showing an earlier one
EmptyPassAfterFrame ==
    /\ v_taken = 0
    /\ updates = 0
    /\ surface # << >>

\* C25: a presenter pass that finds k >= 1 frames takes all of them, makes
\* exactly one surface update, with the frame produced last, and leaves
\* the channel empty.
PassShowsLatestOnly ==
    [][render_frame /\ VIDEO_DATA_CHANNEL # << >> /\ crash' = "none"
         => /\ updates' = 1
            /\ VIDEO_DATA_CHANNEL' = << >>
            /\ surface'
                 = RenderBuffer(VIDEO_DATA_CHANNEL[Len(VIDEO_DATA_CHANNEL)],
                                window_size, BYTES_PER_PIXEL).window_buffer]_vars

(***************************************************************************)
(* Environment callback, queues, keyboard                                  *)
(***************************************************************************)
\* C26: every call of the environment callback with the duplicate-frame
\* query writes true to the data slot and returns true, the command
\* reported as handled.
CanDupeAnsweredYes ==
    [][(\E return_data \in EnvData :
           libretro_environment_callback(ENVIRONMENT_GET_CAN_DUPE,
                                         return_data))
         => /\ env_data' = << TRUE >>
            /\ env_ret' = << TRUE >>]_vars

\* audio chunks and video frames produced and not yet consumed
Backlog == Len(AUDIO_DATA_CHANNEL) + Len(VIDEO_DATA_CHANNEL)

\* C27: the number of audio chunks and video frames waiting on the two
\* channels stays under a bound that does not depend on how long the
\* consumers stay away: it never reaches the 2 * MaxQueue items at which
\* the model stops following the producers.
BacklogBounded == Backlog < 2 * MaxQueue

\* the simulation/display thread is between two calls
DisplayThreadFree ==
    /\ crash = "none"
    /\ v_pc = "idle"
    /\ a_pc[SimThread] = "idle"

\* C28: a presenter pass and a drain of the format channel can be taken
\* whenever the simulation/display thread is free, whatever the channels
\* hold: with an empty channel they return at once, and with k items
\* waiting they handle those k items and leave the channel empty.
PassesNeverWait ==
    /\ [](DisplayThreadFree =>
             /\ ENABLED set_up_pixel_format
             /\ video_rx_alive => ENABLED render_frame)
    /\ [][render_frame
            => /\ v_taken' = Len(VIDEO_DATA_CHANNEL)
               /\ VIDEO_DATA_CHANNEL' = << >>
               /\ v_pc' = "idle"]_vars
    /\ [][set_up_pixel_format
            => /\ PIXEL_FORMAT_CHANNEL' = << >>
               /\ v_pc' = "idle"]_vars

\* a drain has handled an announcement and a later pass found no frame
DrainedAndPassedOnEmpty ==
    /\ negotiated
    /\ announced # "none"
    /\ PIXEL_FORMAT_CHANNEL = << >>
    /\ v_taken = 0

\* the save slot a sequence of key presses leads to when an increase adds
\* one below 255, a decrease takes one off above 0 and nothing else
\* changes the slot
RECURSIVE SlotAfter(_, _)
SlotAfter(keys, slot) ==
    IF keys = << >> THEN slot
    ELSE SlotAfter(Tail(keys),
                   IF Head(keys) = "increase" /\ slot < 255 THEN slot + 1
                   ELSE IF Head(keys) = "decrease" /\ slot > 0 THEN slot - 1
                   ELSE slot)

\* C30: the save slot is always within 0..255; in every keyboard poll an
\* increase at 255 and a decrease at 0 leave it as it is and every other
\* increase or decrease changes it by exactly one.
SaveSlotStaysInRange ==
    /\ current_save_slot \in 0..255
    /\ current_save_slot = SlotAfter(kb_keys, kb_before)

\* the increase key was pressed with the slot at 255
IncreaseAtLastSlot ==
    /\ kb_before = 255
    /\ kb_keys = << "increase" >>
    /\ current_save_slot = 255

====
